---- MODULE Spec2Model ----
(***************************************************************************)
(* PaperSuRF: a terminal application that ingests PDF papers into a graph  *)
(* store (Paper, Author, Topic nodes; WROTE and HAS_TOPIC relationships)   *)
(* and searches them by keyword or by embedding similarity.                *)
(*                                                                         *)
(* Python strings are TLA+ strings; length, slicing and concatenation are  *)
(* Len, SubSeq and \o.  A float similarity is a fixed-point integer in     *)
(* thousandths.  Each session.run (one auto-commit transaction) and each   *)
(* read or write of a shared attribute is one step of a thread.            *)
(***************************************************************************)
EXTENDS Integers, Sequences, FiniteSets, Bags, TLC

VARIABLES
    commands,     \* self.commands: the word -> handler table, in insertion order
    fs,           \* the directories of the file system: path -> os.listdir(path)
    running,      \* self.running
    input,        \* self.input_field.text of the line last accepted
    output,       \* self.output_area.text, as the sequence of appended chunks
    store,        \* the graph store behind self.session
    all_papers,   \* self.all_papers, shared by every ingestion thread
    threads,      \* the ingestion threads started so far
    html,         \* content of visualized_results.html
    opened,       \* number of browser pages opened by write_html
    handled,      \* number of input lines accepted so far
    call          \* a single call of a function, with its arguments and result

vars == <<commands, fs, running, input, output, store, all_papers, threads,
          html, opened, handled, call>>

-----------------------------------------------------------------------------
(* Bounds of the model *)

MaxLines == 2
MaxThreads == 2
MaxRows == 3
MaxPapers == 2
MaxFiles == 3

-----------------------------------------------------------------------------
(* Python str operations *)

CharAt(s, i) == SubSeq(s, i, i)

UpperChars == "ABCDEFGHIJKLMNOPQRSTUVWXYZ"
LowerChars == "abcdefghijklmnopqrstuvwxyz"
DigitChars == "0123456789"

RECURSIVE IndexIn(_, _, _)
IndexIn(c, s, i) ==
    IF i > Len(s) THEN 0
    ELSE IF CharAt(s, i) = c THEN i
    ELSE IndexIn(c, s, i + 1)

CharsOf(s) == {CharAt(s, i) : i \in 1..Len(s)}

UpperSet == CharsOf(UpperChars)
LowerSet == CharsOf(LowerChars)
DigitSet == CharsOf(DigitChars)

IsDigit(c) == c \in DigitSet
IsAlpha(c) == c \in UpperSet \/ c \in LowerSet
IsSpace(c) == c \in {" ", "\t", "\n"}

\* str.lower() of one character
LowerOf == [c \in UpperSet |-> CharAt(LowerChars, IndexIn(c, UpperChars, 1))]

LowerChar(c) == IF c \in UpperSet THEN LowerOf[c] ELSE c

RECURSIVE Lower(_)
Lower(s) == IF s = "" THEN "" ELSE LowerChar(Head(s)) \o Lower(Tail(s))

RECURSIVE LStrip(_)
LStrip(s) == IF s # "" /\ IsSpace(Head(s)) THEN LStrip(Tail(s)) ELSE s

RECURSIVE RStrip(_)
RStrip(s) ==
    IF s # "" /\ IsSpace(CharAt(s, Len(s)))
    THEN RStrip(SubSeq(s, 1, Len(s) - 1))
    ELSE s

Strip(s) == LStrip(RStrip(s))

RECURSIVE RStripChars(_, _)
RStripChars(s, chars) ==
    IF s # "" /\ IndexIn(CharAt(s, Len(s)), chars, 1) # 0
    THEN RStripChars(SubSeq(s, 1, Len(s) - 1), chars)
    ELSE s

StartsWith(s, p) == Len(s) >= Len(p) /\ SubSeq(s, 1, Len(p)) = p
EndsWith(s, p) == Len(s) >= Len(p) /\ SubSeq(s, Len(s) - Len(p) + 1, Len(s)) = p

Contains(s, sub) ==
    \E i \in 1..(Len(s) - Len(sub) + 1) : SubSeq(s, i, i + Len(sub) - 1) = sub

\* str.replace(old, "") for a non-empty old
RECURSIVE Remove(_, _)
Remove(s, old) ==
    IF s = "" THEN ""
    ELSE IF StartsWith(s, old) THEN Remove(SubSeq(s, Len(old) + 1, Len(s)), old)
    ELSE Head(s) \o Remove(Tail(s), old)

RECURSIVE WordLen(_)
WordLen(s) == IF s = "" \/ IsSpace(Head(s)) THEN 0 ELSE 1 + WordLen(Tail(s))

\* str.split(maxsplit=n): runs of whitespace separate, the rest is kept whole
RECURSIVE Split(_, _)
Split(s, maxsplit) ==
    LET t == LStrip(s)
        n == WordLen(t)
    IN  IF t = "" THEN <<>>
        ELSE IF maxsplit = 0 THEN <<t>>
        ELSE <<SubSeq(t, 1, n)>> \o Split(SubSeq(t, n + 1, Len(t)), maxsplit - 1)

RECURSIVE Join(_, _)
Join(tokens, sep) ==
    IF tokens = <<>> THEN ""
    ELSE IF Len(tokens) = 1 THEN tokens[1]
    ELSE tokens[1] \o sep \o Join(Tail(tokens), sep)

\* order of str values, as ORDER BY and sorted() compare them
CharOrder == " '-./0123456789:ABCDEFGHIJKLMNOPQRSTUVWXYZ_abcdefghijklmnopqrstuvwxyz"

RECURSIVE StrLess(_, _)
StrLess(a, b) ==
    IF b = "" THEN FALSE
    ELSE IF a = "" THEN TRUE
    ELSE IF Head(a) = Head(b) THEN StrLess(Tail(a), Tail(b))
    ELSE IndexIn(Head(a), CharOrder, 1) < IndexIn(Head(b), CharOrder, 1)

StrLeq(a, b) == a = b \/ StrLess(a, b)

-----------------------------------------------------------------------------
(* The file system the application runs on *)

HomeDir == "/home/u"

ExpandUser(path) ==
    IF StartsWith(path, "~") THEN HomeDir \o SubSeq(path, 2, Len(path)) ELSE path

\* the directories the application is run on, each with its listing
Directories ==
    [path \in {"dA", "dB", "dC", "dD", "dE"} |->
        CASE path = "dA" -> <<"a.pdf", "notes.txt">>
          [] path = "dB" -> <<"a.pdf">>
          [] path = "dC" -> <<"bad.pdf", "c.pdf">>
          [] path = "dD" -> <<"k.PDF", "d.pdf">>
          [] OTHER -> <<"notes.txt">>]

PlainFiles == {"f.txt"}

PathExists(path) == path \in DOMAIN fs \cup PlainFiles
IsDir(path) == path \in DOMAIN fs

ListDir(path) == fs[path]

PathJoin(path, name) == path \o "/" \o name

RECURSIVE Basename(_)
Basename(path) ==
    IF IndexIn("/", path, 1) = 0 THEN path
    ELSE Basename(SubSeq(path, IndexIn("/", path, 1) + 1, Len(path)))

\* what pymupdf reads from each PDF: its metadata and the text of its pages
PdfDocument(file_path) ==
    CASE file_path = "dA/a.pdf" ->
            [title |-> "Deep Learning", creationDate |-> "D:20200101",
             author |-> "Ann", subject |-> "", text |-> "nets doi:10.1000/ab."]
      [] Basename(file_path) = "k.PDF" ->
            [title |-> "Nets And Graphs", creationDate |-> "x D:2019 D:2021",
             author |-> "Cy", subject |-> "", text |-> "graphs, nets"]
      [] Basename(file_path) = "d.pdf" ->
            [title |-> "10.5555/t1.", creationDate |-> "D:199",
             author |-> "", subject |-> "", text |-> "trees"]
      [] OTHER ->
            [title |-> "Graphs", creationDate |-> "",
             author |-> "Bob", subject |-> "", text |-> "trees"]

-----------------------------------------------------------------------------
(* paper.py *)

\* Paper.__init__
NewPaper ==
    [path |-> "", filename |-> "", year |-> "", title |-> "", author |-> "",
     subject |-> "", text |-> "", topics |-> <<>>,
     main_keyphrase |-> "No keyphrase", doi |-> ""]

\* re.search(r"D:(\d{4})", s): group(1) of the leftmost match, "" without one
YearOf(s) ==
    LET hits == {i \in 1..Len(s) :
                    /\ i + 5 <= Len(s)
                    /\ SubSeq(s, i, i + 1) = "D:"
                    /\ \A k \in 2..5 : IsDigit(CharAt(s, i + k))}
    IN  IF hits = {} THEN ""
        ELSE LET i == CHOOSE h \in hits : \A g \in hits : h <= g
             IN  SubSeq(s, i + 2, i + 5)

\* Paper.load: the fields of the Paper after a successful load
PaperLoad(path) ==
    LET document == PdfDocument(path)
    IN  [NewPaper EXCEPT !.path = path,
                         !.filename = Basename(path),
                         !.title = document.title,
                         !.year = YearOf(document.creationDate),
                         !.author = document.author,
                         !.subject = document.subject,
                         !.text = document.text]

-----------------------------------------------------------------------------
(* The DOI pattern of papers_load, matched with re.IGNORECASE *)

DoiPunctuation == "-._;()/:"
DoiStripChars == ".,;()[]!?\"'"

IsDoiChar(c) ==
    IsAlpha(c) \/ IsDigit(c) \/ c = "_" \/ IndexIn(c, DoiPunctuation, 1) # 0

\* number of characters from position i on that satisfy the class
RECURSIVE RunOfDigits(_, _)
RunOfDigits(s, i) ==
    IF i <= Len(s) /\ IsDigit(CharAt(s, i)) THEN 1 + RunOfDigits(s, i + 1) ELSE 0

RECURSIVE RunOfDoiChars(_, _)
RunOfDoiChars(s, i) ==
    IF i <= Len(s) /\ IsDoiChar(CharAt(s, i)) THEN 1 + RunOfDoiChars(s, i + 1) ELSE 0

RECURSIVE RunOfSpaces(_, _)
RunOfSpaces(s, i) ==
    IF i <= Len(s) /\ IsSpace(CharAt(s, i)) THEN 1 + RunOfSpaces(s, i + 1) ELSE 0

\* 10\.\d{4,9}/[-._;()/:a-zA-Z0-9_]+ at position j: the last index matched, or 0
DoiCoreEnd(s, j) ==
    LET d == RunOfDigits(s, j + 3)
        k == j + 3 + d
        n == RunOfDoiChars(s, k + 1)
    IN  IF /\ j + 2 <= Len(s)
           /\ SubSeq(s, j, j + 2) = "10."
           /\ d >= 4 /\ d <= 9
           /\ k <= Len(s)
           /\ CharAt(s, k) = "/"
           /\ n >= 1
        THEN k + n
        ELSE 0

\* (?:doi:\s*)? at position i: the position where the core must start
DoiAfterPrefix(s, i) ==
    IF i + 3 <= Len(s) /\ Lower(SubSeq(s, i, i + 3)) = "doi:"
    THEN i + 4 + RunOfSpaces(s, i + 4)
    ELSE i

\* the match that starts at position i, if any: the optional prefix is tried first
DoiMatchAt(s, i) ==
    LET j == DoiAfterPrefix(s, i)
    IN  IF DoiCoreEnd(s, j) # 0
        THEN [found |-> TRUE, group0 |-> SubSeq(s, i, DoiCoreEnd(s, j)),
              group1 |-> SubSeq(s, j, DoiCoreEnd(s, j))]
        ELSE IF DoiCoreEnd(s, i) # 0
        THEN [found |-> TRUE, group0 |-> SubSeq(s, i, DoiCoreEnd(s, i)),
              group1 |-> SubSeq(s, i, DoiCoreEnd(s, i))]
        ELSE [found |-> FALSE, group0 |-> "", group1 |-> ""]

\* re.search(doi_pattern, s, flags=re.IGNORECASE): the leftmost match
DoiSearch(s) ==
    LET hits == {i \in 1..Len(s) : DoiMatchAt(s, i).found}
    IN  IF hits = {} THEN [found |-> FALSE, group0 |-> "", group1 |-> ""]
        ELSE DoiMatchAt(s, CHOOSE h \in hits : \A g \in hits : h <= g)

\* the value papers_load gives paper.doi
ExtractDoi(text, title) ==
    LET match == DoiSearch(text)
        match_meta == DoiSearch(title)
    IN  IF match.found
        THEN "https://doi.org/" \o RStripChars(match.group1, DoiStripChars)
        ELSE IF match_meta.found
        THEN "https://doi.org/"
                \o Strip(Remove(RStripChars(match_meta.group0, DoiStripChars), "doi:"))
        ELSE "NO PROVIDED DOI"

-----------------------------------------------------------------------------
(* The external models: KeyBERT and the sentence transformer *)

\* keyword_extractor.extract_keywords(text, top_n=5, ...): (phrase, score) pairs
ExtractKeywords(text) ==
    (IF Contains(text, "nets") THEN <<<<"deep nets", 9>>>> ELSE <<>>)
        \o (IF Contains(text, "graphs") THEN <<<<"big graphs", 7>>>> ELSE <<>>)

\* sentence_transformer.encode(text): the embedding vector
Encode(text) ==
    CASE Lower(text) = "deep nets" -> <<4, 3>>
      [] Lower(text) = "deep" -> <<3, 4>>
      [] Lower(text) = "no keyphrase" -> <<0, 1>>
      [] Lower(text) = "zzz" -> <<-1, 0>>
      [] OTHER -> <<1, 0>>

-----------------------------------------------------------------------------
(* The output area *)

Text(s) == [kind |-> "text", text |-> s, rows |-> <<>>]
Table(headers, rows) == [kind |-> "table", text |-> headers, rows |-> rows]

\* output_write / output_print / an output_writer call: text + end is appended
Written(text, end) == <<Text(text \o end)>>

-----------------------------------------------------------------------------
(* papers_load *)

\* True where pymupdf.open raises on the file instead of returning a document
OpenRaises(file_path) == Basename(file_path) = "bad.pdf"

\* faulty variant: main_keyphrase is the last topic
LoadOneLastTopic(path, file_name) ==
    LET loaded == PaperLoad(PathJoin(path, file_name))
        extracted_topics == ExtractKeywords(loaded.text)
        topics == [k \in 1..Len(extracted_topics) |-> extracted_topics[k][1]]
        with_doi == [loaded EXCEPT !.doi = ExtractDoi(loaded.text, loaded.title)]
    IN  IF extracted_topics # <<>>
        THEN [with_doi EXCEPT !.topics = topics, !.main_keyphrase = topics[Len(topics)]]
        ELSE with_doi

\* one iteration of the loop over os.listdir(path) for a file that loads
LoadOne(path, file_name) ==
    LET loaded == PaperLoad(PathJoin(path, file_name))
        extracted_topics == ExtractKeywords(loaded.text)
        topics == [k \in 1..Len(extracted_topics) |-> extracted_topics[k][1]]
        with_doi == [loaded EXCEPT !.doi = ExtractDoi(loaded.text, loaded.title)]
    IN  IF extracted_topics # <<>>
        THEN [with_doi EXCEPT !.topics = topics, !.main_keyphrase = topics[1]]
        ELSE with_doi

LoadOneOutput(file_name) ==
    Written("Phrasing file: " \o file_name, "\n")
        \o Written("Extracting DOI Link", "-------")
        \o Written("DOI link extracted", "\n")
        \o Written("Extracting Topics", "---------")
        \o Written("Topics extracted", "\n")

\* faulty variant: the keywords are extracted before the file is loaded
LoadOneStagesSwapped(path, file_name) ==
    <<<<"topics", PathJoin(path, file_name)>>, <<"load", PathJoin(path, file_name)>>>>

\* the calls into the PDF loader and the keyword extractor of that iteration, in
\* the order they are made
LoadOneStages(path, file_name) ==
    <<<<"load", PathJoin(path, file_name)>>, <<"topics", PathJoin(path, file_name)>>>>

\* the loop of papers_load over the rest of the listing; stages is the record of
\* the calls made so far
RECURSIVE LoadListing(_, _, _, _, _)
LoadListing(path, listing, items, out, stages) ==
    IF listing = <<>>
    THEN [raised |-> FALSE, items |-> items, out |-> out, stages |-> stages]
    ELSE LET file_name == Head(listing)
         IN  IF ~EndsWith(Lower(file_name), ".pdf")
             THEN LoadListing(path, Tail(listing), items,
                     out \o Written("Error: " \o file_name
                                       \o " is not a PDF file. Skipping.", "\n"),
                     stages)
             ELSE IF OpenRaises(PathJoin(path, file_name))
             THEN [raised |-> TRUE, items |-> items,
                   out |-> out \o Written("Phrasing file: " \o file_name, "\n"),
                   stages |-> stages]
             ELSE LoadListing(path, Tail(listing),
                     Append(items, LoadOne(path, file_name)),
                     out \o LoadOneOutput(file_name),
                     stages \o LoadOneStages(path, file_name))

papers_load(path) ==
    IF ~PathExists(ExpandUser(path))
    THEN [raised |-> FALSE, items |-> <<>>, out |-> <<>>, stages |-> <<>>]
    ELSE LoadListing(ExpandUser(path), ListDir(ExpandUser(path)), <<>>, <<>>, <<>>)

-----------------------------------------------------------------------------
(* The graph store and the Cypher statements of add_paper *)

EmptyStore ==
    [Paper |-> EmptyBag, Author |-> EmptyBag, Topic |-> EmptyBag,
     WROTE |-> EmptyBag, HAS_TOPIC |-> EmptyBag]

Copies(e, n) == IF n > 0 THEN [x \in {e} |-> n] ELSE EmptyBag

\* the Paper nodes that MATCH (p:Paper {filename: $filename}) binds
PapersNamed(s, filename) == {p \in BagToSet(s.Paper) : p.filename = filename}

RECURSIVE SumCopies(_, _)
SumCopies(B, S) ==
    IF S = {} THEN 0
    ELSE LET e == CHOOSE x \in S : TRUE
         IN  CopiesIn(e, B) + SumCopies(B, S \ {e})

PaperCount(s, filename) == SumCopies(s.Paper, PapersNamed(s, filename))

\* faulty variant: ON CREATE SET without p.embedding
MergePaperWithoutEmbedding(s, filename, title, year, embedding, doi) ==
    IF PapersNamed(s, filename) # {} THEN s
    ELSE [s EXCEPT !.Paper = @ (+) SetToBag({[filename |-> filename,
                                               title |-> title,
                                               year |-> year,
                                               embedding |-> <<>>,
                                               doi |-> doi]})]

\* faulty variant: MERGE ... ON MATCH SET, which rewrites the node it matched
MergePaperOnMatchSet(s, filename, title, year, embedding, doi) ==
    [s EXCEPT !.Paper =
        [p \in BagToSet(@) \ PapersNamed(s, filename) |-> CopiesIn(p, @)]
            (+) SetToBag({[filename |-> filename, title |-> title, year |-> year,
                           embedding |-> embedding, doi |-> doi]})]

\* MERGE (p:Paper {filename: $filename}) ON CREATE SET p.title = ..., ...
MergePaper(s, filename, title, year, embedding, doi) ==
    IF PapersNamed(s, filename) # {} THEN s
    ELSE [s EXCEPT !.Paper = @ (+) SetToBag({[filename |-> filename,
                                               title |-> title,
                                               year |-> year,
                                               embedding |-> embedding,
                                               doi |-> doi]})]

\* faulty variant: CREATE (a:Author {name: $name})
CreateAuthor(s, name) == [s EXCEPT !.Author = @ (+) SetToBag({name})]

\* MERGE (a:Author {name: $name})
MergeAuthor(s, name) ==
    IF BagIn(name, s.Author) THEN s
    ELSE [s EXCEPT !.Author = @ (+) SetToBag({name})]

\* MERGE (t:Topic {name: $topic})
MergeTopic(s, topic) ==
    IF BagIn(topic, s.Topic) THEN s
    ELSE [s EXCEPT !.Topic = @ (+) SetToBag({topic})]

\* faulty variant: the paper's WROTE relationships are replaced by the new one
MergeWroteSingleAuthor(s, filename, name) ==
    LET rel == [author |-> name, paper |-> filename]
        others == {r \in BagToSet(s.WROTE) : r.paper # filename}
    IN  [s EXCEPT !.WROTE = [r \in others |-> CopiesIn(r, s.WROTE)] (+) SetToBag({rel})]

\* MATCH (p:Paper {filename}), (a:Author {name}) MERGE (a)-[:WROTE]->(p):
\* every matched pair of nodes ends with a relationship
MergeWrote(s, filename, name) ==
    LET rel == [author |-> name, paper |-> filename]
        pairs == PaperCount(s, filename) * CopiesIn(name, s.Author)
    IN  [s EXCEPT !.WROTE = @ (+) Copies(rel, pairs - CopiesIn(rel, @))]

\* faulty variant: CREATE (p)-[:HAS_TOPIC]->(t) for every matched pair
CreateHasTopic(s, filename, topic) ==
    LET rel == [paper |-> filename, topic |-> topic]
        pairs == PaperCount(s, filename) * CopiesIn(topic, s.Topic)
    IN  [s EXCEPT !.HAS_TOPIC = @ (+) Copies(rel, pairs)]

\* MATCH (p:Paper {filename}), (t:Topic {name}) MERGE (p)-[:HAS_TOPIC]->(t)
MergeHasTopic(s, filename, topic) ==
    LET rel == [paper |-> filename, topic |-> topic]
        pairs == PaperCount(s, filename) * CopiesIn(topic, s.Topic)
    IN  [s EXCEPT !.HAS_TOPIC = @ (+) Copies(rel, pairs - CopiesIn(rel, @))]

\* dict.get(key, default)
Get(d, key, default) == IF key \in DOMAIN d THEN d[key] ELSE default

-----------------------------------------------------------------------------
(* analysis.py: the Cypher queries *)

\* the rows of a result in the order the store yields them
RECURSIVE ScanOrder(_)
ScanOrder(B) ==
    IF BagToSet(B) = {} THEN <<>>
    ELSE LET e == CHOOSE x \in BagToSet(B) : TRUE
         IN  <<e>> \o ScanOrder(B (-) SetToBag({e}))

\* ORDER BY p.year ASC
RECURSIVE InsertByYear(_, _)
InsertByYear(sorted, row) ==
    IF sorted = <<>> THEN <<row>>
    ELSE IF StrLess(row.Year, Head(sorted).Year) THEN <<row>> \o sorted
    ELSE <<Head(sorted)>> \o InsertByYear(Tail(sorted), row)

RECURSIVE OrderByYear(_)
OrderByYear(rows) ==
    IF rows = <<>> THEN <<>>
    ELSE InsertByYear(OrderByYear(SubSeq(rows, 1, Len(rows) - 1)), rows[Len(rows)])

RECURSIVE SetToSeq(_)
SetToSeq(S) ==
    IF S = {} THEN <<>>
    ELSE LET e == CHOOSE x \in S : TRUE
         IN  <<e>> \o SetToSeq(S \ {e})

RECURSIVE SumBags(_)
SumBags(bags) == IF bags = <<>> THEN EmptyBag ELSE Head(bags) (+) SumBags(Tail(bags))

\* the rows F(e) of every e in S together
BagOver(S, F(_)) ==
    LET seq == SetToSeq(S)
    IN  SumBags([i \in 1..Len(seq) |-> F(seq[i])])

\* OPTIONAL MATCH (a:Author)-[:WROTE]->(p): the author names bound for p,
\* 'No Author' (COALESCE) when there is none
AuthorsOf(s, p) ==
    LET rels == {r \in BagToSet(s.WROTE) : r.paper = p.filename}
    IN  IF rels = {} THEN Copies("No Author", CopiesIn(p, s.Paper))
        ELSE BagOver(rels, LAMBDA r : Copies(r.author, CopiesIn(r, s.WROTE)))

query_list_papers(s) ==
    LET RowsOf(p) ==
            BagOver(BagToSet(AuthorsOf(s, p)),
                LAMBDA a : Copies([Author |-> a, Title |-> p.title, DOI |-> p.doi,
                                   Year |-> p.year], CopiesIn(a, AuthorsOf(s, p))))
    IN  OrderByYear(ScanOrder(BagOver(BagToSet(s.Paper), RowsOf)))

query_search_by_title(s, title_val) ==
    LET matched == {p \in BagToSet(s.Paper) :
                        Contains(Lower(p.title), Lower(title_val))}
        RowsOf(p) ==
            BagOver(BagToSet(AuthorsOf(s, p)),
                LAMBDA a : Copies([Title |-> p.title, Author |-> a, DOI |-> p.doi,
                                   Year |-> p.year], CopiesIn(a, AuthorsOf(s, p))))
    IN  OrderByYear(ScanOrder(BagOver(matched, RowsOf)))

query_search_by_author(s, author_val) ==
    LET matched == {r \in BagToSet(s.WROTE) :
                        Contains(Lower(r.author), Lower(author_val))}
        RowsOf(r) ==
            BagOver(PapersNamed(s, r.paper),
                LAMBDA p : Copies([Author |-> r.author, Filename |-> p.filename,
                                   Title |-> p.title, DOI |-> p.doi,
                                   Year |-> p.year], CopiesIn(r, s.WROTE)))
    IN  OrderByYear(ScanOrder(BagOver(matched, RowsOf)))

\* rows are grouped by (p, Author); Topic is the head of the sorted topic list
query_search_by_topic(s, topic_val) ==
    LET TopicsOf(p) == {r.topic : r \in {x \in BagToSet(s.HAS_TOPIC) :
                            /\ x.paper = p.filename
                            /\ Contains(Lower(x.topic), Lower(topic_val))}}
        matched == {p \in BagToSet(s.Paper) : TopicsOf(p) # {}}
        First(p) == CHOOSE t \in TopicsOf(p) : \A u \in TopicsOf(p) : StrLeq(t, u)
        RowsOf(p) ==
            SetToBag({[Filename |-> p.filename, Title |-> p.title, Author |-> a,
                       DOI |-> p.doi, Topic |-> First(p), Year |-> p.year]
                      : a \in BagToSet(AuthorsOf(s, p))})
    IN  OrderByYear(ScanOrder(BagOver(matched, RowsOf)))

\* WHERE p.embedding IS NOT NULL: every node add_paper creates has the property
query_search_by_semantic(s) ==
    LET RowsOf(p) ==
            BagOver(BagToSet(AuthorsOf(s, p)),
                LAMBDA a : Copies([Filename |-> p.filename, Title |-> p.title,
                                   Author |-> a, Year |-> p.year,
                                   Embedding |-> p.embedding, DOI |-> p.doi],
                                  CopiesIn(a, AuthorsOf(s, p))))
        \* WHERE p.embedding IS NOT NULL; a property never set is <<>> here
        embedded == {p \in BagToSet(s.Paper) : p.embedding # <<>>}
    IN  ScanOrder(BagOver(embedded, RowsOf))

-----------------------------------------------------------------------------
(* analysis.py: Analysis.find_papers_by_similarity *)

DefaultTopN == 15
DefaultThreshold == 200

ISqrt(n) == CHOOSE r \in 0..n : r * r <= n /\ n < (r + 1) * (r + 1)

RECURSIVE Dot(_, _)
Dot(u, v) ==
    IF u = <<>> \/ v = <<>> THEN 0
    ELSE Head(u) * Head(v) + Dot(Tail(u), Tail(v))

Norm(u) == ISqrt(Dot(u, u))

\* sklearn cosine_similarity of two vectors, in thousandths; 0 for a zero vector
Cosine(u, v) ==
    IF Norm(u) = 0 \/ Norm(v) = 0 THEN 0
    ELSE (1000 * Dot(u, v)) \div (Norm(u) * Norm(v))

\* the loop over the records: rows without embedding or below threshold are skipped
RECURSIVE Candidates(_, _, _)
Candidates(rows, query_vec, threshold) ==
    IF rows = <<>> THEN <<>>
    ELSE LET record == Head(rows)
             rest == Candidates(Tail(rows), query_vec, threshold)
             paper_similarity == Cosine(query_vec, record.Embedding)
         IN  IF record.Embedding = <<>> THEN rest
             ELSE IF paper_similarity < threshold THEN rest
             ELSE <<<<Get(record, "Title", "Untitled"),
                      Get(record, "Author", "Unknown Author"),
                      Get(record, "DOI", "No DOI"),
                      paper_similarity>>>> \o rest

\* sorted(papers, key=lambda x: x[3], reverse=True): stable, highest first
RECURSIVE InsertBySimilarity(_, _)
InsertBySimilarity(sorted, x) ==
    IF sorted = <<>> THEN <<x>>
    ELSE IF x[4] > Head(sorted)[4] THEN <<x>> \o sorted
    ELSE <<Head(sorted)>> \o InsertBySimilarity(Tail(sorted), x)

RECURSIVE SortedBySimilarity(_)
SortedBySimilarity(papers) ==
    IF papers = <<>> THEN <<>>
    ELSE InsertBySimilarity(SortedBySimilarity(SubSeq(papers, 1, Len(papers) - 1)),
                            papers[Len(papers)])

\* faulty variant: seq[:n + 1]
PrefixInclusive(seq, n) ==
    SubSeq(seq, 1, IF n + 1 < Len(seq) THEN n + 1 ELSE Len(seq))

\* seq[:n]
Prefix(seq, n) ==
    IF n >= 0 THEN SubSeq(seq, 1, IF n < Len(seq) THEN n ELSE Len(seq))
    ELSE SubSeq(seq, 1, IF Len(seq) + n > 0 THEN Len(seq) + n ELSE 0)

find_papers_by_similarity(rows, query_text, top_n, threshold) ==
    Prefix(SortedBySimilarity(Candidates(rows, Encode(query_text), threshold)), top_n)

-----------------------------------------------------------------------------
(* visualisation.py: visualise_output, on the pyvis Network it builds *)

\* Python values a paper dict may hold
PyNone == [t |-> "none", v |-> ""]
PyStr(x) == [t |-> "str", v |-> x]
PyFloat(x) == [t |-> "float", v |-> x]

Truthy(x) == (x.t = "str" /\ x.v # "") \/ (x.t = "float" /\ x.v # 0)

\* str(x) inside an f-string
Str(x) == IF x.t = "none" THEN "None" ELSE x.v

\* f"{x:.2f}" of a value in thousandths
Format2f(x) ==
    LET a == IF x < 0 THEN -x ELSE x
        h == (a + 5) \div 10
        cents == h % 100
    IN  (IF x < 0 /\ h # 0 THEN "-" ELSE "") \o ToString(h \div 100) \o "."
            \o (IF cents < 10 THEN "0" ELSE "") \o ToString(cents)

DefaultBaseLength == 50
DefaultScale == 200

EmptyNet == [nodes |-> <<>>, edges |-> <<>>]

NodeIds(net) == {net.nodes[i].id : i \in 1..Len(net.nodes)}

\* Network.add_node: an id already present is left alone; an empty label is the id
add_node(net, n_id, label, title, link) ==
    IF n_id \in NodeIds(net) THEN net
    ELSE [net EXCEPT !.nodes = Append(@, [id |-> n_id,
                                          label |-> IF Truthy(label) THEN Str(label)
                                                    ELSE n_id,
                                          title |-> title,
                                          link |-> link])]

\* Network.add_edge asserts that both ends are nodes
EdgeRaises(net, source, to) == source \notin NodeIds(net) \/ to \notin NodeIds(net)

\* Network.add_edge of an undirected network: one edge per pair of nodes
add_edge(net, source, to, length) ==
    IF \E i \in 1..Len(net.edges) :
            \/ (net.edges[i].from = source /\ net.edges[i].to = to)
            \/ (net.edges[i].from = to /\ net.edges[i].to = source)
    THEN net
    ELSE [net EXCEPT !.edges = Append(@, [from |-> source, to |-> to,
                                          length |-> length])]

\* float(paper.get("Similarity", 0.5)) raises on None and on text
SimilarityRaises(paper, use_similarity) ==
    use_similarity /\ Get(paper, "Similarity", PyFloat(500)).t # "float"

\* faulty variant: doi.startswith without the 'doi and' guard
DoiRaisesUnguarded(paper) ==
    Get(paper, "DOI", PyStr("No DOI")).t # "str"

\* doi.startswith raises on a truthy value that is no str
DoiRaises(paper) ==
    LET doi == Get(paper, "DOI", PyStr("No DOI"))
    IN  Truthy(doi) /\ doi # PyStr("No DOI") /\ doi.t # "str"

\* the body of the loop for the idx-th paper
VisualiseOne(net, paper, idx, central_label, use_similarity, base_length, scale) ==
    LET title == Get(paper, "Title", PyStr("No title"))
        doi == Get(paper, "DOI", PyStr("No DOI"))
        similarity == Get(paper, "Similarity", PyFloat(500)).v
        node_id == "paper_" \o ToString(idx)
        node_title == "Title: " \o Str(title) \o "<br>DOI: " \o Str(doi)
                        \o (IF use_similarity
                            THEN "<br>Similarity: " \o Format2f(similarity)
                            ELSE "")
        url == IF Truthy(doi) /\ doi # PyStr("No DOI")
               THEN (IF StartsWith(doi.v, "http") THEN doi
                     ELSE PyStr("https://doi.org/" \o doi.v))
               ELSE PyNone
        edge_length == IF use_similarity
                       THEN PyFloat(base_length * 1000 + (1000 - similarity) * scale)
                       ELSE PyNone
        with_node == add_node(net, node_id, title, node_title, url)
    IN  IF SimilarityRaises(paper, use_similarity) \/ DoiRaises(paper)
        THEN [raised |-> TRUE, net |-> net]
        ELSE IF EdgeRaises(with_node, central_label, node_id)
        THEN [raised |-> TRUE, net |-> with_node]
        ELSE [raised |-> FALSE,
              net |-> add_edge(with_node, central_label, node_id, edge_length)]

RECURSIVE VisualiseLoop(_, _, _, _, _, _, _)
VisualiseLoop(net, papers, idx, central_label, use_similarity, base_length, scale) ==
    IF idx > Len(papers) THEN [raised |-> FALSE, net |-> net]
    ELSE LET step == VisualiseOne(net, papers[idx], idx, central_label,
                                  use_similarity, base_length, scale)
         IN  IF step.raised THEN step
             ELSE VisualiseLoop(step.net, papers, idx + 1, central_label,
                                use_similarity, base_length, scale)

\* the network handed to write_html, or raised when an exception escapes before
visualise_output(papers, central_label, use_similarity, base_length, scale) ==
    VisualiseLoop(add_node(EmptyNet, central_label, PyStr(central_label),
                           "Search root", PyNone),
                  papers, 1, central_label, use_similarity, base_length, scale)

\* net.write_html(output_file): the files after the call
WriteHtml(files, output_file, net) ==
    [f \in DOMAIN files \cup {output_file} |->
        IF f = output_file THEN net ELSE files[f]]

DefaultOutputFile == "visualized_results.html"

-----------------------------------------------------------------------------
(* command_line.py: CommandLineInterface *)

\* faulty variant: the shorthand of add is missing
CommandTableWithoutA ==
    << <<"exit", "command_exit">>,
       <<"help", "command_help">>,
       <<"list", "command_list_papers">>,
       <<"search", "command_search">>,
       <<"vsearch", "command_search">>,
       <<"simsearch", "command_search_by_similarity">>,
       <<"vsimsearch", "command_search_by_vsemantic">>,
       <<"add", "command_add_papers_by_users">>,
       <<"e", "command_exit">>,
       <<"h", "command_help">>,
       <<"lp", "command_list_papers">>,
       <<"st", "command_search">>,
       <<"sa", "command_search">>,
       <<"sp", "command_search">>,
       <<"ss", "command_search_by_similarity">>,
       <<"vsh", "command_search">>,
       <<"vss", "command_search_by_vsemantic">> >>

\* self.commands as __init__ builds it, in insertion order
CommandTable ==
    << <<"exit", "command_exit">>,
       <<"help", "command_help">>,
       <<"list", "command_list_papers">>,
       <<"search", "command_search">>,
       <<"vsearch", "command_search">>,
       <<"simsearch", "command_search_by_similarity">>,
       <<"vsimsearch", "command_search_by_vsemantic">>,
       <<"add", "command_add_papers_by_users">>,
       <<"e", "command_exit">>,
       <<"h", "command_help">>,
       <<"lp", "command_list_papers">>,
       <<"st", "command_search">>,
       <<"sa", "command_search">>,
       <<"sp", "command_search">>,
       <<"ss", "command_search_by_similarity">>,
       <<"vsh", "command_search">>,
       <<"vss", "command_search_by_vsemantic">>,
       <<"a", "command_add_papers_by_users">> >>

\* the methods of CommandLineInterface that take the argument list
Handlers ==
    {"command_exit", "command_help", "command_list_papers", "command_search",
     "command_search_by_similarity", "command_search_by_vsemantic",
     "command_add_papers_by_users"}

\* dict.get(word): the handler bound to the word, "" (None) without one
Lookup(table, word) ==
    LET hits == {i \in 1..Len(table) : table[i][1] = word}
    IN  IF hits = {} THEN "" ELSE table[CHOOSE i \in hits : TRUE][2]

\* what a handler does besides writing: a visualisation, a thread, the exit
NoEffect == [out |-> <<>>, vis |-> <<>>, start |-> <<>>, exit |-> FALSE]
Say(chunks) == [NoEffect EXCEPT !.out = chunks]

Unknown(tokens) == Say(Written("Unknown command '" \o Join(tokens, " ") \o "'", "\n"))

Or(x, default) == IF x = "" THEN default ELSE x

\* generate_table_str: the table tabulate renders, once the window is rendered
generate_table_str(rows) ==
    Table(<<"Title", "Author(s)", "Year", "DOI">>,
          [i \in 1..Len(rows) |-> <<Or(rows[i].Title, "--"), Or(rows[i].Author, "--"),
                                    Or(rows[i].Year, "--"), Or(rows[i].DOI, "--")>>])

\* a result row as the dict visualise_output receives
RowDict(row) == [k \in DOMAIN row |-> PyStr(row[k])]

Visualise(papers, central_label, use_similarity) ==
    <<visualise_output(papers, central_label, use_similarity,
                       DefaultBaseLength, DefaultScale)>>

command_exit(tokens, s) == [NoEffect EXCEPT !.exit = TRUE]

HelpText ==
    "Available commands:\n\n"
    \o "----------------- General ------------------  \n"
    \o " list papers                lp\n"
    \o "\n"
    \o "----- Searching by semantic similarity -----  \n"
    \o " simsearch  <text>          ss  <text>\n"
    \o " vsimsearch <text>          vss <text>\n"
    \o "\n"
    \o "------ Searching by title/author/topic -----  \n"
    \o " search  title  <title>     st  <title>\n"
    \o " search  author <name>      sa  <name>\n"
    \o " search  topic  <topic>     sp  <topic>\n"
    \o " vsearch <type> <text>     vsh <type> <text>\n"
    \o "\n"
    \o "----------------- Database -----------------  \n"
    \o " add <directory_path>       a <directory_path>\n"
    \o "\n"
    \o "-------------- Miscellaneous ---------------  \n"
    \o " help (this message)        h\n"
    \o " exit                       e\n"
    \o "\n"

command_help(tokens, s) == Say(Written(HelpText, "\n"))

command_list_papers(tokens, s) ==
    LET rows == query_list_papers(s)
    IN  IF tokens \notin {<<"lp">>, <<"list", "papers">>} THEN Unknown(tokens)
        ELSE IF rows = <<>> THEN Say(Written("No papers found.", "\n"))
        ELSE Say(Written("=== " \o ToString(Len(rows))
                            \o " papers in the database ===", "\n")
                 \o <<generate_table_str(rows)>>)

\* the part the three keyword searches share: message, or header, table and graph
SearchResult(result, none_found, header, value, visualsation) ==
    IF result = <<>> THEN Say(Written(none_found, "\n"))
    ELSE [Say(Written(header, "\n") \o <<generate_table_str(result)>>)
            EXCEPT !.vis = IF visualsation
                           THEN Visualise([i \in 1..Len(result) |-> RowDict(result[i])],
                                          value, FALSE)
                           ELSE <<>>]

command_search_by_title(s, title_value, visualsation) ==
    SearchResult(query_search_by_title(s, title_value),
                 "No papers found with title containing '" \o title_value \o "'.",
                 "=== Papers with title containing '" \o title_value \o "' ===",
                 title_value, visualsation)

command_search_by_author(s, author_name, visualsation) ==
    SearchResult(query_search_by_author(s, author_name),
                 "No results found for author containing '" \o author_name \o "'.",
                 "=== Papers by author containing '" \o author_name \o "' ===",
                 author_name, visualsation)

command_search_by_topic(s, topic_val, visualsation) ==
    SearchResult(query_search_by_topic(s, topic_val),
                 "No papers found with topic containing '" \o topic_val \o "'.",
                 "=== Papers with topic containing '" \o topic_val \o "' ===",
                 topic_val, visualsation)

\* search_map of command_search
SearchMapKeys == {"st", "sa", "sp", "search", "vst", "vsa", "vsp"}
SearchMap(cmd) ==
    CASE cmd \in {"st", "vst"} -> "title"
      [] cmd \in {"sa", "vsa"} -> "author"
      [] cmd \in {"sp", "vsp"} -> "topic"
      [] OTHER -> ""

command_search(tokens, s) ==
    LET visualise == tokens[1] \in {"vsearch", "vsh", "vst", "vsa", "vsp"}
        cmd == Lower(tokens[1])
        long == cmd \in {"search", "vsearch", "vsh"}
        sub_cmd == IF long THEN Lower(tokens[2]) ELSE SearchMap(cmd)
        value == IF long THEN tokens[3] ELSE tokens[2]
    IN  IF Len(tokens) < 2 THEN Unknown(tokens)
        ELSE IF long /\ Len(tokens) < 3
        THEN Say(Written("Usage: " \o cmd \o " <title|author|topic> <value>", "\n"))
        ELSE IF ~long /\ cmd \notin SearchMapKeys
        THEN Say(Written("Unknown command '" \o cmd \o "'", "\n"))
        ELSE IF sub_cmd = "title" THEN command_search_by_title(s, value, visualise)
        ELSE IF sub_cmd = "author" THEN command_search_by_author(s, value, visualise)
        ELSE IF sub_cmd = "topic" THEN command_search_by_topic(s, value, visualise)
        ELSE Say(Written("Unknown search type. Must be: title, author, or topic.", "\n"))

QueryText(tokens) ==
    IF Len(tokens) = 2 THEN tokens[2] ELSE tokens[2] \o " " \o tokens[3]

SimilarityTable(results) == Table(<<"Title", "Author", "DOI", "Similarity">>, results)

NoEmbeddingText == "No papers found with embedding. Please ensure you stored them!"

command_search_by_similarity(tokens, s) ==
    LET query_text == QueryText(tokens)
        results == find_papers_by_similarity(query_search_by_semantic(s), query_text,
                                             DefaultTopN, DefaultThreshold)
    IN  IF Len(tokens) < 2 THEN Unknown(tokens)
        ELSE IF results = <<>> THEN Say(Written(NoEmbeddingText, "\n"))
        ELSE Say(Written("=== Semantic Search Results for '" \o query_text \o "' ===", "\n")
                 \o <<SimilarityTable(results)>>)

\* the empty result is reported and the handler goes on: it has no return there
command_search_by_vsemantic(tokens, s) ==
    LET query_text == QueryText(tokens)
        results == find_papers_by_similarity(query_search_by_semantic(s), query_text,
                                             DefaultTopN, DefaultThreshold)
        papers == [i \in 1..Len(results) |->
                      [Title |-> PyStr(results[i][1]), Author |-> PyStr(results[i][2]),
                       DOI |-> PyStr(results[i][3]), Similarity |-> PyFloat(results[i][4])]]
    IN  IF Len(tokens) < 2 THEN Unknown(tokens)
        ELSE [Say((IF results = <<>> THEN Written(NoEmbeddingText, "\n") ELSE <<>>)
                  \o Written("=== Semantic Search Results for '" \o query_text \o "' ===",
                             "\n")
                  \o <<SimilarityTable(results)>>)
                EXCEPT !.vis = Visualise(papers, query_text, TRUE)]

\* faulty variant: the thread is started without os.path.exists
AddWithoutExists(tokens, s) ==
    IF Len(tokens) <= 1 THEN Unknown(tokens)
    ELSE [NoEffect EXCEPT !.start = <<tokens[2]>>]

\* faulty variant: the thread is started without os.path.isdir
AddWithoutIsDir(tokens, s) ==
    IF Len(tokens) <= 1 THEN Unknown(tokens)
    ELSE IF ~PathExists(tokens[2])
    THEN Say(Written("Error: Path-'" \o tokens[2]
                        \o "' doesn't exist, please enter correct path!", "\n"))
    ELSE [NoEffect EXCEPT !.start = <<tokens[2]>>]

command_add_papers_by_users(tokens, s) ==
    LET path == tokens[2]
    IN  IF Len(tokens) <= 1 THEN Unknown(tokens)
        ELSE IF ~PathExists(path)
        THEN Say(Written("Error: Path-'" \o path
                            \o "' doesn't exist, please enter correct path!", "\n"))
        ELSE IF ~IsDir(path)
        THEN Say(Written("Error: Path-'" \o path
                            \o "' doesn't a folder, please enter correct path!", "\n"))
        ELSE [NoEffect EXCEPT !.start = <<path>>]

\* func(args) for the handler the table names
Call(func, tokens, s) ==
    CASE func = "command_exit" -> command_exit(tokens, s)
      [] func = "command_help" -> command_help(tokens, s)
      [] func = "command_list_papers" -> command_list_papers(tokens, s)
      [] func = "command_search" -> command_search(tokens, s)
      [] func = "command_search_by_similarity" -> command_search_by_similarity(tokens, s)
      [] func = "command_search_by_vsemantic" -> command_search_by_vsemantic(tokens, s)
      [] func = "command_add_papers_by_users" -> command_add_papers_by_users(tokens, s)

Tokens(line) == Split(Strip(line), 2)

\* command_handler on a line with at least one token: the output is cleared first
command_handler(line, table, s) ==
    LET tokens == Tokens(line)
        main_cmd == Lower(tokens[1])
        func == Lookup(table, main_cmd)
    IN  IF func # "" THEN Call(func, tokens, s)
        ELSE Say(Written("Unknown command '" \o main_cmd \o "'", "\n"))

-----------------------------------------------------------------------------
(* command_add_papers_by_users: paper_loading_thread and add_paper *)

NewThread(path) ==
    [pc |-> "load", path |-> path, items |-> <<>>, i |-> 0,
     paper_data |-> <<>>, embedding |-> <<>>, k |-> 0, stages |-> <<>>]

\* the dictionary paper_loading_thread builds for add_paper
PaperData(paper) ==
    [path |-> paper.path,
     id |-> paper.title,
     filename |-> paper.filename,
     Year |-> paper.year,
     title |-> paper.title,
     text |-> paper.text,
     authors |-> IF paper.author # "" THEN <<paper.author>> ELSE <<>>,
     topics |-> paper.topics,
     main_keyphrase |-> paper.main_keyphrase,
     doi |-> paper.doi]

\* the values add_paper reads from the dictionary
Filename(paper) == Get(paper, "filename", "No filename")
Title(paper) == Get(paper, "title", "No title")
Year(paper) == Get(paper, "year", "No year")
Authors(paper) == Get(paper, "authors", <<"No authors">>)
Topics(paper) == Get(paper, "topics", <<"No topics">>)
Doi(paper) == Get(paper, "doi", "NO DOI")
MainKeyphrase(paper) == Get(paper, "main_keyphrase", "No keyphrase")

\* where add_paper goes after the Paper node, and after each loop
AfterPaper(paper) ==
    IF Authors(paper) # <<>> THEN "author_node"
    ELSE IF Topics(paper) # <<>> THEN "topic_node"
    ELSE "next"

AfterAuthors(paper) == IF Topics(paper) # <<>> THEN "topic_node" ELSE "next"

\* the thread after one more session.run of add_paper, which goes on at pc; once
\* add_paper returns the loop of paper_loading_thread moves to the next paper
Proceed(thread, pc) ==
    IF pc = "next"
    THEN [thread EXCEPT !.pc = "next", !.i = @ + 1, !.k = 0,
                        !.paper_data = <<>>, !.embedding = <<>>]
    ELSE [thread EXCEPT !.pc = pc,
                        !.k = IF \/ (thread.pc = "author_rel" /\ pc = "author_node")
                                 \/ (thread.pc = "topic_rel" /\ pc = "topic_node")
                              THEN @ + 1 ELSE 1]

Alive == running

\* (1) papers_load, then self.all_papers = its result; an exception ends the thread
ThreadLoad(t) ==
    /\ Alive /\ threads[t].pc = "load"
    /\ LET r == papers_load(threads[t].path)
       IN  /\ output' = output \o r.out
           /\ all_papers' = IF r.raised THEN all_papers ELSE r.items
           /\ threads' = [threads EXCEPT ![t].pc = IF r.raised THEN "raised" ELSE "check",
                                         ![t].stages = r.stages]
    /\ UNCHANGED <<commands, fs, running, input, store, html, opened, handled, call>>

\* if not self.all_papers: report and return
ThreadCheck(t) ==
    /\ Alive /\ threads[t].pc = "check"
    /\ IF all_papers = <<>>
       THEN /\ output' = output \o Written("No valid PDF file was found.", "\n")
            /\ threads' = [threads EXCEPT ![t].pc = "done"]
       ELSE /\ output' = output
            /\ threads' = [threads EXCEPT ![t].pc = "iter"]
    /\ UNCHANGED <<commands, fs, running, input, store, all_papers, html, opened, handled, call>>

\* for paper in self.all_papers: the list is read once, when the loop starts
ThreadIter(t) ==
    /\ Alive /\ threads[t].pc = "iter"
    /\ threads' = [threads EXCEPT ![t].pc = "next", ![t].items = all_papers, ![t].i = 1]
    /\ UNCHANGED <<commands, fs, running, input, output, store, all_papers, html,
                   opened, handled, call>>

\* the next paper: its dictionary, the message, and the embedding add_paper encodes;
\* after the last one, the closing message
ThreadNext(t) ==
    /\ Alive /\ threads[t].pc = "next"
    /\ IF threads[t].i > Len(threads[t].items)
       THEN /\ output' = output \o Written("Paper loading complete", "\n")
            /\ threads' = [threads EXCEPT ![t].pc = "done", ![t].items = <<>>,
                                          ![t].i = 0]
       ELSE LET paper == threads[t].items[threads[t].i]
            IN  /\ output' = output \o Written("Uploading file: " \o paper.filename
                                                 \o ".pdf", "\n")
                /\ threads' = [threads EXCEPT
                                  ![t].pc = "merge_paper",
                                  ![t].stages = Append(@, <<"embedding", paper.path>>),
                                  ![t].paper_data = PaperData(paper),
                                  ![t].embedding =
                                      Encode(MainKeyphrase(PaperData(paper)))]
    /\ UNCHANGED <<commands, fs, running, input, store, all_papers, html, opened, handled, call>>

\* session.run: MERGE (p:Paper ...) ON CREATE SET ...
ThreadMergePaper(t) ==
    /\ Alive /\ threads[t].pc = "merge_paper"
    /\ LET paper == threads[t].paper_data
       IN  /\ store' = MergePaper(store, Filename(paper), Title(paper), Year(paper),
                                  threads[t].embedding, Doi(paper))
           /\ threads' = [threads EXCEPT
                             ![t] = Proceed([@ EXCEPT !.stages =
                                                Append(@, <<"write", paper.path>>)],
                                            AfterPaper(paper))]
    /\ UNCHANGED <<commands, fs, running, input, output, all_papers, html, opened, handled, call>>

\* session.run: MERGE (a:Author {name: $name})
ThreadAuthorNode(t) ==
    /\ Alive /\ threads[t].pc = "author_node"
    /\ store' = MergeAuthor(store, Authors(threads[t].paper_data)[threads[t].k])
    /\ threads' = [threads EXCEPT ![t].pc = "author_rel"]
    /\ UNCHANGED <<commands, fs, running, input, output, all_papers, html, opened, handled, call>>

\* session.run: MATCH ... MERGE (a)-[:WROTE]->(p)
ThreadAuthorRel(t) ==
    /\ Alive /\ threads[t].pc = "author_rel"
    /\ LET paper == threads[t].paper_data
           last == threads[t].k = Len(Authors(paper))
       IN  /\ store' = MergeWrote(store, Filename(paper), Authors(paper)[threads[t].k])
           /\ threads' = [threads EXCEPT
                             ![t] = Proceed(@, IF last THEN AfterAuthors(paper)
                                               ELSE "author_node")]
    /\ UNCHANGED <<commands, fs, running, input, output, all_papers, html, opened, handled, call>>

\* session.run: MERGE (t:Topic {name: $topic})
ThreadTopicNode(t) ==
    /\ Alive /\ threads[t].pc = "topic_node"
    /\ store' = MergeTopic(store, Topics(threads[t].paper_data)[threads[t].k])
    /\ threads' = [threads EXCEPT ![t].pc = "topic_rel"]
    /\ UNCHANGED <<commands, fs, running, input, output, all_papers, html, opened, handled, call>>

\* session.run: MATCH ... MERGE (p)-[:HAS_TOPIC]->(t); after the last topic
\* add_paper returns and the loop moves to the next paper
ThreadTopicRel(t) ==
    /\ Alive /\ threads[t].pc = "topic_rel"
    /\ LET paper == threads[t].paper_data
           last == threads[t].k = Len(Topics(paper))
       IN  /\ store' = MergeHasTopic(store, Filename(paper), Topics(paper)[threads[t].k])
           /\ threads' = [threads EXCEPT
                             ![t] = Proceed(@, IF last THEN "next" ELSE "topic_node")]
    /\ UNCHANGED <<commands, fs, running, input, output, all_papers, html, opened, handled, call>>

-----------------------------------------------------------------------------
(* The application *)

\* the lines typed into the input field
InputLines ==
    {"", "  ", "lp", "list papers", "list", "help", "h", "exit", "e", "bogus",
     "st deep", "search title deep", "st deep learning", "search title deep learning",
     "sa ann", "search author ann", "sp nets", "search topic nets",
     "sa zed", "sp zed", "st zed", "search year 2020", "search title",
     "vsearch title deep", "vsh author bob", "vsearch topic zed",
     "ss deep", "simsearch deep nets", "ss zzz", "ss",
     "vss deep", "vsimsearch zzz",
     "add", "a dA", "add dB", "add dC", "add dD", "add dE", "add f.txt", "add nope"}

\* faulty variant: exit clears the graph store
AcceptClearingOnExit(line) ==
    /\ running /\ handled < MaxLines
    /\ handled' = handled + 1
    /\ input' = line
    /\ IF Tokens(line) = <<>>
       THEN UNCHANGED <<commands, fs, running, output, store, all_papers, threads,
                        html, opened, call>>
       ELSE LET effect == command_handler(line, commands, store)
            IN  /\ output' = effect.out
                /\ running' = (running /\ ~effect.exit)
                /\ IF effect.start = <<>> THEN threads' = threads
                   ELSE /\ Len(threads) < MaxThreads
                        /\ threads' = Append(threads, NewThread(effect.start[1]))
                /\ IF effect.vis = <<>> \/ effect.vis[1].raised
                   THEN UNCHANGED <<html, opened>>
                   ELSE /\ html' = WriteHtml(html, DefaultOutputFile, effect.vis[1].net)
                        /\ opened' = opened + 1
                /\ store' = IF effect.exit THEN EmptyStore ELSE store
                /\ UNCHANGED <<commands, fs, all_papers, call>>

\* faulty variant: the branch of an unknown command does not call output_clear
AcceptKeepingOutput(line) ==
    /\ running /\ handled < MaxLines
    /\ handled' = handled + 1
    /\ input' = line
    /\ IF Tokens(line) = <<>>
       THEN UNCHANGED <<commands, fs, running, output, store, all_papers, threads,
                        html, opened, call>>
       ELSE LET effect == command_handler(line, commands, store)
            IN  /\ output' = IF Lookup(commands, Lower(Tokens(line)[1])) = ""
                              THEN output \o effect.out ELSE effect.out
                /\ running' = (running /\ ~effect.exit)
                /\ IF effect.start = <<>> THEN threads' = threads
                   ELSE /\ Len(threads) < MaxThreads
                        /\ threads' = Append(threads, NewThread(effect.start[1]))
                /\ IF effect.vis = <<>> \/ effect.vis[1].raised
                   THEN UNCHANGED <<html, opened>>
                   ELSE /\ html' = WriteHtml(html, DefaultOutputFile, effect.vis[1].net)
                        /\ opened' = opened + 1
                /\ UNCHANGED <<commands, fs, store, all_papers, call>>

\* accept_handler: command_handler on the accepted line
Accept(line) ==
    /\ running /\ handled < MaxLines
    /\ handled' = handled + 1
    /\ input' = line
    /\ IF Tokens(line) = <<>>
       THEN UNCHANGED <<commands, fs, running, output, store, all_papers, threads,
                        html, opened, call>>
       ELSE LET effect == command_handler(line, commands, store)
            IN  /\ output' = effect.out
                /\ running' = (running /\ ~effect.exit)
                /\ IF effect.start = <<>> THEN threads' = threads
                   ELSE /\ Len(threads) < MaxThreads
                        /\ threads' = Append(threads, NewThread(effect.start[1]))
                /\ IF effect.vis = <<>> \/ effect.vis[1].raised
                   THEN UNCHANGED <<html, opened>>
                   ELSE /\ html' = WriteHtml(html, DefaultOutputFile, effect.vis[1].net)
                        /\ opened' = opened + 1
                /\ UNCHANGED <<commands, fs, store, all_papers, call>>

NoCall == [fn |-> "", pc |-> "idle"]

\* the application after CommandLineInterface.__init__ and run, nothing typed yet
Constructed ==
    /\ commands = CommandTable
    /\ running = TRUE
    /\ input = ""
    /\ output = <<>>
    /\ store = EmptyStore
    /\ all_papers = <<>>
    /\ threads = <<>>
    /\ html = <<>>
    /\ opened = 0
    /\ handled = 0

Started == Constructed /\ fs = Directories

Init == Started /\ call = NoCall

Next ==
    \/ \E line \in InputLines : Accept(line)
    \/ \E t \in 1..Len(threads) : ThreadLoad(t)
    \/ \E t \in 1..Len(threads) : ThreadCheck(t)
    \/ \E t \in 1..Len(threads) : ThreadIter(t)
    \/ \E t \in 1..Len(threads) : ThreadNext(t)
    \/ \E t \in 1..Len(threads) : ThreadMergePaper(t)
    \/ \E t \in 1..Len(threads) : ThreadAuthorNode(t)
    \/ \E t \in 1..Len(threads) : ThreadAuthorRel(t)
    \/ \E t \in 1..Len(threads) : ThreadTopicNode(t)
    \/ \E t \in 1..Len(threads) : ThreadTopicRel(t)

Spec == Init /\ [][Next]_vars

-----------------------------------------------------------------------------
(* find_papers_by_similarity called on the rows of any store *)

\* all sequences over S of length at most n
RECURSIVE SeqsUpTo(_, _)
SeqsUpTo(S, n) ==
    IF n = 0 THEN {<<>>}
    ELSE SeqsUpTo(S, n - 1)
            \cup {Append(q, x) : q \in {r \in SeqsUpTo(S, n - 1) : Len(r) = n - 1},
                                 x \in S}

SemanticRow(title, embedding) ==
    [Filename |-> title \o ".pdf", Title |-> title, Author |-> "No Author",
     Year |-> "No year", Embedding |-> embedding, DOI |-> "NO PROVIDED DOI"]

\* rows of the semantic query: with equal, low, negative, zero and empty embeddings
SemanticRows ==
    {SemanticRow("P1", <<4, 3>>), SemanticRow("P2", <<0, 1>>),
     SemanticRow("P3", <<1, 0>>), SemanticRow("P4", <<8, 6>>),
     SemanticRow("P5", <<>>), SemanticRow("P6", <<-3, -4>>),
     SemanticRow("P7", <<0, 0>>)}

TopNs == 0..MaxRows \cup {DefaultTopN}
Thresholds == {DefaultThreshold, 0, 700}

InitSim ==
    /\ Started
    /\ call \in {[fn |-> "find_papers_by_similarity", pc |-> "call", rows |-> rows,
                  query_text |-> query_text, top_n |-> top_n,
                  threshold |-> threshold, result |-> <<>>]
                 : rows \in SeqsUpTo(SemanticRows, MaxRows),
                   query_text \in {"deep", "trees"},
                   top_n \in TopNs, threshold \in Thresholds}

SimReturn ==
    /\ call.pc = "call"
    /\ call' = [call EXCEPT !.pc = "return",
                            !.result = find_papers_by_similarity(
                                call.rows, call.query_text, call.top_n, call.threshold)]
    /\ UNCHANGED <<commands, fs, running, input, output, store, all_papers, threads,
                   html, opened, handled>>

NextSim == SimReturn

SpecSim == InitSim /\ [][NextSim]_vars

-----------------------------------------------------------------------------
(* The DOI step of papers_load on any text and title *)

DoiLeads == {"", "doi:", "DOI:", "Doi: ", "see "}
DoiBodies == {"10.1000/ab", "10.1016/S0-8(99)7", "10.12/x", "none"}
DoiTails == {"", ".", ").", " and 10.2000/cd"}

DoiSamples == {lead \o body \o tail : lead \in DoiLeads, body \in DoiBodies,
                                      tail \in DoiTails}

InitDoi ==
    /\ Started
    /\ call \in {[fn |-> "papers_load", pc |-> "call", text |-> text,
                  title |-> title, doi |-> ""]
                 : text \in DoiSamples, title \in DoiSamples}

DoiReturn ==
    /\ call.pc = "call"
    /\ call' = [call EXCEPT !.pc = "return", !.doi = ExtractDoi(call.text, call.title)]
    /\ UNCHANGED <<commands, fs, running, input, output, store, all_papers, threads,
                   html, opened, handled>>

NextDoi == DoiReturn

SpecDoi == InitDoi /\ [][NextDoi]_vars

-----------------------------------------------------------------------------
(* visualise_output called on any list of paper dicts *)

\* a dict without the key k
Without(d, k) == [x \in DOMAIN d \ {k} |-> d[x]]

FullDict ==
    [Title |-> PyStr("Paper Title 1"), DOI |-> PyStr("10.1234/xyz123"),
     Author |-> PyStr("Author A"), Similarity |-> PyFloat(900)]

\* paper dicts: keys present or missing, DOI and Title given, empty or None
PaperDicts ==
    {FullDict,
     Without(FullDict, "Similarity"),
     [FullDict EXCEPT !.Similarity = PyFloat(300), !.DOI = PyStr("https://doi.org/10.1/x")],
     [FullDict EXCEPT !.DOI = PyNone, !.Title = PyNone],
     [FullDict EXCEPT !.DOI = PyStr("No DOI"), !.Title = PyStr("")],
     Without(Without(FullDict, "DOI"), "Title"),
     [Without(FullDict, "Author") EXCEPT !.DOI = PyStr(""), !.Similarity = PyFloat(0)],
     <<>>}

InitVis ==
    /\ Started
    /\ call \in {[fn |-> "visualise_output", pc |-> "call", papers |-> papers,
                  central_label |-> central_label, use_similarity |-> use_similarity,
                  output_file |-> "test.html", open_browser |-> open_browser]
                 : papers \in SeqsUpTo(PaperDicts, MaxPapers),
                   central_label \in {"TestNoSimilarity", "paper_1"},
                   use_similarity \in BOOLEAN, open_browser \in BOOLEAN}

\* the call: an exception leaves the file unwritten
VisReturn ==
    /\ call.pc = "call"
    /\ LET r == visualise_output(call.papers, call.central_label, call.use_similarity,
                                 DefaultBaseLength, DefaultScale)
       IN  IF r.raised
           THEN /\ call' = [call EXCEPT !.pc = "raised"]
                /\ UNCHANGED <<html, opened>>
           ELSE /\ call' = [call EXCEPT !.pc = "return"]
                /\ html' = WriteHtml(html, call.output_file, r.net)
                /\ opened' = IF call.open_browser THEN opened + 1 ELSE opened
    /\ UNCHANGED <<commands, fs, running, input, output, store, all_papers, threads,
                   handled>>

NextVis == VisReturn

SpecVis == InitVis /\ [][NextVis]_vars

-----------------------------------------------------------------------------
(* papers_load called on any directory *)

\* directory entries: PDFs in either letter case, one that does not open, others
EntryNames == {"a.pdf", "k.PDF", "d.pdf", "bad.pdf", "notes.txt", "x.pdfx"}

\* os.listdir yields every entry once
Listings ==
    {q \in SeqsUpTo(EntryNames, MaxFiles) :
        \A i \in 1..Len(q) : \A j \in 1..Len(q) : q[i] = q[j] => i = j}

InitLoad ==
    /\ Constructed
    /\ \E listing \in Listings :
          /\ fs = [dir \in {"dX", HomeDir \o "/dX"} |-> listing]
          /\ call \in {[fn |-> "papers_load", pc |-> "call", path |-> path,
                         listing |-> listing, result |-> <<>>, out |-> <<>>]
                        : path \in {"dX", "~/dX", "nope"}}

\* the call: an exception of Paper.load leaves papers_load without a result
LoadReturn ==
    /\ call.pc = "call"
    /\ LET r == papers_load(call.path)
       IN  call' = [call EXCEPT !.pc = IF r.raised THEN "raised" ELSE "return",
                                !.result = IF r.raised THEN <<>> ELSE r.items,
                                !.out = r.out]
    /\ UNCHANGED <<commands, fs, running, input, output, store, all_papers, threads,
                   html, opened, handled>>

NextLoad == LoadReturn

SpecLoad == InitLoad /\ [][NextLoad]_vars

-----------------------------------------------------------------------------
(* add_paper called on any store with any paper dictionary *)

\* for author in authors: MERGE the Author node, then the WROTE relationship
RECURSIVE AddAuthors(_, _, _, _)
AddAuthors(s, filename, authors, k) ==
    IF k > Len(authors) THEN s
    ELSE AddAuthors(MergeWrote(MergeAuthor(s, authors[k]), filename, authors[k]),
                    filename, authors, k + 1)

\* for topic in topics: MERGE the Topic node, then the HAS_TOPIC relationship
RECURSIVE AddTopics(_, _, _, _)
AddTopics(s, filename, topics, k) ==
    IF k > Len(topics) THEN s
    ELSE AddTopics(MergeHasTopic(MergeTopic(s, topics[k]), filename, topics[k]),
                   filename, topics, k + 1)

\* add_paper run from its first statement to its last with no other writer between
add_paper(s, paper) ==
    LET merged == MergePaper(s, Filename(paper), Title(paper), Year(paper),
                             Encode(MainKeyphrase(paper)), Doi(paper))
    IN  AddTopics(AddAuthors(merged, Filename(paper), Authors(paper), 1),
                  Filename(paper), Topics(paper), 1)

NodeA == [filename |-> "a.pdf", title |-> "Old", year |-> "1999",
          embedding |-> <<1, 0>>, doi |-> "NO PROVIDED DOI"]
NodeB == [filename |-> "a.pdf", title |-> "Older", year |-> "1990",
          embedding |-> <<>>, doi |-> "NO PROVIDED DOI"]
NodeC == [filename |-> "c.pdf", title |-> "Graphs", year |-> "2001",
          embedding |-> <<0, 1>>, doi |-> "NO PROVIDED DOI"]

\* stores add_paper may find: empty, holding the paper already, holding another
\* paper, and holding nodes some other writer created twice
AddStores ==
    {EmptyStore,
     [EmptyStore EXCEPT !.Paper = SetToBag({NodeA}), !.Author = SetToBag({"Ann"}),
                        !.WROTE = SetToBag({[author |-> "Ann", paper |-> "a.pdf"]})],
     [EmptyStore EXCEPT !.Paper = SetToBag({NodeC}), !.Author = SetToBag({"Bob"}),
                        !.Topic = SetToBag({"nets"}),
                        !.WROTE = SetToBag({[author |-> "Bob", paper |-> "c.pdf"]}),
                        !.HAS_TOPIC = SetToBag({[paper |-> "c.pdf", topic |-> "nets"]})],
     [EmptyStore EXCEPT !.Paper = SetToBag({NodeA, NodeB}),
                        !.Author = Copies("Ann", 2)],
     [EmptyStore EXCEPT !.Paper = SetToBag({NodeA}), !.Topic = Copies("nets", 2),
                        !.HAS_TOPIC = SetToBag({[paper |-> "a.pdf", topic |-> "nets"]})]}

AuthorLists == {<<>>, <<"Ann">>, <<"Ann", "Bob">>, <<"Ann", "Ann">>}
TopicLists == {<<>>, <<"nets">>, <<"nets", "graphs">>, <<"nets", "nets">>}

\* paper dictionaries, with and without the keys add_paper has defaults for
AddDicts ==
    LET full == {[filename |-> "a.pdf", title |-> "Deep Learning", year |-> "2020",
                  authors |-> a, topics |-> t, main_keyphrase |-> "deep nets",
                  doi |-> "https://doi.org/10.1000/ab"]
                    : a \in AuthorLists, t \in TopicLists}
    IN  full \cup {Without(Without(d, "filename"), "main_keyphrase") : d \in full}
             \cup {Without(d, "authors") : d \in full}
             \cup {Without(Without(d, "topics"), "year") : d \in full}

InitAdd ==
    /\ commands = CommandTable
    /\ fs = Directories
    /\ running = TRUE
    /\ input = ""
    /\ output = <<>>
    /\ store \in AddStores
    /\ all_papers = <<>>
    /\ threads = <<>>
    /\ html = <<>>
    /\ opened = 0
    /\ handled = 0
    /\ call \in {[fn |-> "add_paper", pc |-> "call", paper |-> d, first |-> store]
                    : d \in AddDicts}

\* one call of add_paper; call.first keeps the store the first call left
AddReturn ==
    /\ call.pc \in {"call", "once"}
    /\ store' = add_paper(store, call.paper)
    /\ call' = [call EXCEPT !.pc = IF call.pc = "call" THEN "once" ELSE "twice",
                            !.first = IF call.pc = "call" THEN store' ELSE @]
    /\ UNCHANGED <<commands, fs, running, input, output, all_papers, threads,
                   html, opened, handled>>

NextAdd == AddReturn

SpecAdd == InitAdd /\ [][NextAdd]_vars

-----------------------------------------------------------------------------
(* Properties *)

Filenames(s) == {p.filename : p \in BagToSet(s.Paper)}

\* a line was accepted in this step; input' is that line
Accepted == handled' = handled + 1

Qualifies(row, c) ==
    /\ row.Embedding # <<>>
    /\ Cosine(Encode(c.query_text), row.Embedding) >= c.threshold

Returned(row, c) ==
    <<row.Title, row.Author, row.DOI, Cosine(Encode(c.query_text), row.Embedding)>>

\* C2: find_papers_by_similarity returns only rows with a non-empty embedding and a
\* similarity of at least the threshold, in non-increasing order of similarity,
\* min(top_n, number of qualifying rows) of them, and leaves out no qualifying row
\* that is strictly more similar than a returned one.
C2_SimilarityRanking ==
    call.pc = "return" =>
        LET result == call.result
            qualifying == {j \in 1..Len(call.rows) : Qualifies(call.rows[j], call)}
        IN  /\ \A i \in 1..Len(result) :
                  \E j \in qualifying : result[i] = Returned(call.rows[j], call)
            /\ \A i \in 1..Len(result) : \A k \in i..Len(result) :
                  result[i][4] >= result[k][4]
            /\ Len(result) = IF call.top_n < Cardinality(qualifying)
                             THEN call.top_n ELSE Cardinality(qualifying)
            /\ \A j \in qualifying : \A i \in 1..Len(result) :
                  Returned(call.rows[j], call)[4] > result[i][4]
                      => \E k \in 1..Len(result) : result[k] = Returned(call.rows[j], call)

\* a call that filtered rows out, truncated the rest and returned two of them
C2_Witness ==
    /\ call.pc = "return"
    /\ Len(call.result) = 2
    /\ call.top_n = 2
    /\ call.result[1][4] > call.result[2][4]
    /\ \E j \in 1..Len(call.rows) : call.rows[j].Embedding = <<>>
    /\ Cardinality({j \in 1..Len(call.rows) : Qualifies(call.rows[j], call)}) = 2

\* C3: nothing the application does removes a node or a relationship: the Paper,
\* Author and Topic nodes and the WROTE and HAS_TOPIC relationships only grow.
C3_StoreOnlyGrows ==
    [][/\ store.Paper \sqsubseteq store'.Paper
       /\ store.Author \sqsubseteq store'.Author
       /\ store.Topic \sqsubseteq store'.Topic
       /\ store.WROTE \sqsubseteq store'.WROTE
       /\ store.HAS_TOPIC \sqsubseteq store'.HAS_TOPIC]_vars

\* two ingestions of the same filename have written nodes and relationships
C3_Witness ==
    /\ BagCardinality(store.WROTE) = 2
    /\ BagCardinality(store.HAS_TOPIC) = 1
    /\ BagCardinality(store.Paper) = 1
    /\ \A t \in 1..Len(threads) : threads[t].pc = "done"

IsAddLine(line) ==
    Tokens(line) # <<>> /\ Lower(Tokens(line)[1]) \in {"add", "a"}

ValidAddLine(line) ==
    /\ IsAddLine(line)
    /\ Len(Tokens(line)) >= 2
    /\ PathExists(Tokens(line)[2])
    /\ IsDir(Tokens(line)[2])

\* C4: an add command whose path is a directory starts exactly one ingestion
\* thread and returns before that thread has taken a step, the threads already
\* running being left as they are; an add command that fails validation starts none.
C4_AddStartsOneThread ==
    [][Accepted /\ IsAddLine(input') =>
          IF ValidAddLine(input')
          THEN /\ Len(threads') = Len(threads) + 1
               /\ SubSeq(threads', 1, Len(threads)) = threads
               /\ threads'[Len(threads')] = NewThread(Tokens(input')[2])
          ELSE threads' = threads]_vars

\* a second add was accepted while the first ingestion was in the middle of add_paper
C4_Witness ==
    /\ Len(threads) = 2
    /\ handled = 2
    /\ threads[1].pc = "author_rel"
    /\ threads[2].pc = "load"

\* C5: an add command with no path, with a path that does not exist or with a path
\* that is no directory writes a plain-text error message, starts no ingestion
\* thread and leaves the graph store unchanged.
C5_InvalidAddReportsError ==
    [][Accepted /\ IsAddLine(input') /\ ~ValidAddLine(input') =>
          /\ Len(output') = 1
          /\ output'[1].kind = "text"
          /\ \/ StartsWith(output'[1].text, "Error: ")
             \/ StartsWith(output'[1].text, "Unknown command")
          /\ threads' = threads
          /\ store' = store]_vars

\* 'add f.txt' was answered with the error, no thread started, while a thread ran
C5_Witness ==
    /\ input = "add f.txt"
    /\ Len(output) = 1
    /\ StartsWith(output[1].text, "Error: Path-'f.txt'")
    /\ Len(threads) = 1
    /\ handled = 2

\* the listing and search lines of one value word, and the rows each one finds
FoundBy(line, s) ==
    LET tokens == Tokens(line)
        cmd == tokens[1]
    IN  IF tokens \in {<<"lp">>, <<"list", "papers">>} THEN query_list_papers(s)
        ELSE IF cmd \in {"ss", "simsearch", "vss", "vsimsearch"} /\ Len(tokens) >= 2
        THEN find_papers_by_similarity(query_search_by_semantic(s), QueryText(tokens),
                                       DefaultTopN, DefaultThreshold)
        ELSE IF cmd = "st" /\ Len(tokens) = 2 THEN query_search_by_title(s, tokens[2])
        ELSE IF cmd = "sa" /\ Len(tokens) = 2 THEN query_search_by_author(s, tokens[2])
        ELSE IF cmd = "sp" /\ Len(tokens) = 2 THEN query_search_by_topic(s, tokens[2])
        ELSE IF cmd \in {"search", "vsearch", "vsh"} /\ Len(tokens) = 3
                /\ tokens[2] = "title"
        THEN query_search_by_title(s, tokens[3])
        ELSE IF cmd \in {"search", "vsearch", "vsh"} /\ Len(tokens) = 3
                /\ tokens[2] = "author"
        THEN query_search_by_author(s, tokens[3])
        ELSE IF cmd \in {"search", "vsearch", "vsh"} /\ Len(tokens) = 3
                /\ tokens[2] = "topic"
        THEN query_search_by_topic(s, tokens[3])
        ELSE <<"not a listing or search line">>

\* C6: a listing or search command (list, search/vsearch by title, author or topic,
\* simsearch, vsimsearch) that finds nothing writes the 'no papers/results found'
\* message and nothing else: no header, no table, no visualisation.
C6_EmptyResultOnlyReported ==
    [][Accepted /\ Tokens(input') # <<>> /\ FoundBy(input', store) = <<>> =>
          /\ Len(output') = 1
          /\ output'[1].kind = "text"
          /\ \/ StartsWith(output'[1].text, "No papers found")
             \/ StartsWith(output'[1].text, "No results found")
          /\ html' = html
          /\ opened' = opened]_vars

\* the words of the table in test_command_words
ExpectedWords ==
    <<"exit", "help", "list", "search", "vsearch", "simsearch", "vsimsearch", "add",
      "e", "h", "lp", "st", "sa", "sp", "ss", "vsh", "vss", "a">>

\* C7: the command table is exactly the 18 words, in that order, each bound to a
\* callable handler, and no command or ingestion step adds, removes or rebinds one.
C7_CommandTableFixed ==
    /\ [i \in 1..Len(commands) |-> commands[i][1]] = ExpectedWords
    /\ \A i \in 1..Len(commands) : commands[i][2] \in Handlers
    /\ commands = CommandTable

\* commands have been handled and an ingestion has run to its end
C7_Witness ==
    /\ handled = 2
    /\ \E t \in 1..Len(threads) : threads[t].pc = "done"
    /\ store.Paper # EmptyBag
    /\ Len(commands) = 18

\* value texts of one and of several words
SearchValues == {"deep", "ann", "nets", "deep learning", "ann b", "deep nets x"}

\* C8: each search shorthand does what its long form does, for every value text:
\* 'st <v>' as 'search title <v>', 'sa <v>' as 'search author <v>' and
\* 'sp <v>' as 'search topic <v>' write the same output and have the same effects.
C8_ShorthandEqualsLongForm ==
    \A v \in SearchValues :
        /\ command_handler("st " \o v, commands, store)
              = command_handler("search title " \o v, commands, store)
        /\ command_handler("sa " \o v, commands, store)
              = command_handler("search author " \o v, commands, store)
        /\ command_handler("sp " \o v, commands, store)
              = command_handler("search topic " \o v, commands, store)

\* C9: visualise_output, for any list of paper dicts, the empty list included, and
\* for either value of use_similarity, raises no exception and writes the HTML
\* visualisation to output_file.
C9_VisualiseWritesFile ==
    /\ call.pc # "raised"
    /\ call.pc = "return" =>
          /\ call.output_file \in DOMAIN html
          /\ Len(html[call.output_file].nodes) >= 1

\* a call with similarities on two dicts, one of them without a usable DOI
C9_Witness ==
    /\ call.pc = "return"
    /\ call.use_similarity
    /\ Len(call.papers) = 2
    /\ call.papers[1] = <<>>
    /\ Get(call.papers[2], "DOI", PyStr("No DOI")) = PyNone
    /\ Len(html[call.output_file].edges) = 2

\* the text the DOI is taken from: the paper text if it has a match, else the title
DoiSource(c) == IF DoiSearch(c.text).found THEN c.text ELSE c.title

\* C11: every paper papers_load returns has, if the keyword extractor returned at
\* least one keyphrase for its text, the returned phrases in the extractor's order
\* as topics and the first of them as main_keyphrase; otherwise it has no topics
\* and the main_keyphrase 'No keyphrase'.
C11_TopicsFromExtractor ==
    call.pc = "return" =>
        \A i \in 1..Len(call.result) :
            LET paper == call.result[i]
                extracted == ExtractKeywords(paper.text)
            IN  IF extracted # <<>>
                THEN /\ Len(paper.topics) = Len(extracted)
                     /\ \A k \in 1..Len(extracted) : paper.topics[k] = extracted[k][1]
                     /\ paper.main_keyphrase = paper.topics[1]
                ELSE /\ paper.topics = <<>>
                     /\ paper.main_keyphrase = "No keyphrase"

\* a paper with two keyphrases and a paper with none were returned
C11_Witness ==
    /\ call.pc = "return"
    /\ \E i \in 1..Len(call.result) :
          /\ call.result[i].topics = <<"deep nets", "big graphs">>
          /\ call.result[i].main_keyphrase = "deep nets"
    /\ \E i \in 1..Len(call.result) : call.result[i].topics = <<>>

\* the name ends in '.pdf' in any letter case
IsPdfName(name) ==
    Len(name) >= 4 /\ Lower(SubSeq(name, Len(name) - 3, Len(name))) = ".pdf"

\* the entries of the listing of dir that are PDFs by name and that open
RECURSIVE LoadablePdfNames(_, _)
LoadablePdfNames(dir, listing) ==
    IF listing = <<>> THEN <<>>
    ELSE (IF IsPdfName(Head(listing)) /\ ~OpenRaises(PathJoin(dir, Head(listing)))
          THEN <<Head(listing)>> ELSE <<>>)
            \o LoadablePdfNames(dir, Tail(listing))

\* C12: papers_load returns one Paper per directory entry whose name ends in '.pdf'
\* in any letter case and that loads, in listing order, with the entry name as
\* filename; every other entry is reported as 'not a PDF file' and gives no Paper;
\* for a path that does not exist the result is the empty list.
C12_OnePaperPerPdf ==
    call.pc # "call" =>
        /\ call.pc = "return"
        /\ IF call.path = "nope" THEN call.result = <<>>
           ELSE /\ [i \in 1..Len(call.result) |-> call.result[i].filename]
                       = LoadablePdfNames(ExpandUser(call.path), call.listing)
                /\ \A j \in 1..Len(call.listing) :
                       ~IsPdfName(call.listing[j]) =>
                           \E k \in 1..Len(call.out) :
                               call.out[k] = Text("Error: " \o call.listing[j]
                                                     \o " is not a PDF file. Skipping.\n")

\* C13: when one PDF of the directory fails to load, papers_load reports that file
\* as plain text, skips it and still returns every other PDF of the directory, and
\* the ingestion thread goes on with the papers returned.
C13_FailedFileSkipped ==
    [][\A t \in 1..Len(threads) :
          threads[t].pc = "load" /\ threads'[t].pc # "load" =>
              LET dir == ExpandUser(threads[t].path)
                  listing == ListDir(dir)
              IN  /\ threads'[t].pc = "check"
                  /\ \A j \in 1..Len(listing) :
                         IsPdfName(listing[j]) =>
                             IF OpenRaises(PathJoin(dir, listing[j]))
                             THEN \E k \in 1..Len(output') :
                                     output'[k] = Text("Failed to load: "
                                                         \o PathJoin(dir, listing[j])
                                                         \o "\n")
                             ELSE \E i \in 1..Len(all_papers') :
                                     all_papers'[i].filename = listing[j]]_vars

\* C14: the Paper node the add command creates for a filename not yet in the store
\* has the title, the year (the four digits of the creation date, or empty) and the
\* doi of the Paper as loaded, never a placeholder default.
C14_NodeCarriesLoadedValues ==
    [][\A t \in 1..Len(threads) :
          /\ threads[t].pc = "merge_paper"
          /\ threads'[t].pc # "merge_paper"
          /\ PapersNamed(store, threads[t].items[threads[t].i].filename) = {}
          => LET paper == threads[t].items[threads[t].i]
             IN  \E p \in BagToSet(store'.Paper) :
                    /\ p.filename = paper.filename
                    /\ p.title = paper.title
                    /\ p.year = paper.year
                    /\ p.doi = paper.doi]_vars

\* the stage is on record in the sequence
Recorded(stages, stage, path) ==
    \E k \in 1..Len(stages) : stages[k] = <<stage, path>>

StoreWellFormed(s) ==
    /\ \A a \in BagToSet(s.Author) : CopiesIn(a, s.Author) = 1
    /\ \A x \in BagToSet(s.Topic) : CopiesIn(x, s.Topic) = 1
    /\ \A r \in BagToSet(s.WROTE) :
          /\ CopiesIn(r, s.WROTE) = 1
          /\ BagIn(r.author, s.Author)
          /\ PapersNamed(s, r.paper) # {}
    /\ \A r \in BagToSet(s.HAS_TOPIC) :
          /\ CopiesIn(r, s.HAS_TOPIC) = 1
          /\ BagIn(r.topic, s.Topic)
          /\ PapersNamed(s, r.paper) # {}

\* C16: when add_paper returns, the store has a WROTE relationship to the Paper node
\* for every author and a HAS_TOPIC relationship from it for every topic; and in
\* every state, those between two store writes included, Author and Topic nodes are
\* unique by name, no relationship is duplicated and both ends of each exist.
C16_RelationshipsComplete ==
    [][/\ StoreWellFormed(store')
       /\ \A t \in 1..Len(threads) :
             /\ threads[t].pc \in {"merge_paper", "author_rel", "topic_rel"}
             /\ threads'[t].pc = "next"
             => LET paper == threads[t].paper_data
                IN  /\ \A k \in 1..Len(Authors(paper)) :
                           BagIn([author |-> Authors(paper)[k], paper |-> Filename(paper)],
                                 store'.WROTE)
                    /\ \A k \in 1..Len(Topics(paper)) :
                           BagIn([paper |-> Filename(paper), topic |-> Topics(paper)[k]],
                                 store'.HAS_TOPIC)]_vars

\* add_paper has returned for a paper of one author and two topics, and the
\* author of another paper is in the store as well
C16_Witness ==
    /\ BagIn([author |-> "Cy", paper |-> "k.PDF"], store.WROTE)
    /\ BagIn([paper |-> "k.PDF", topic |-> "deep nets"], store.HAS_TOPIC)
    /\ BagIn([paper |-> "k.PDF", topic |-> "big graphs"], store.HAS_TOPIC)
    /\ BagIn([paper |-> "a.pdf", topic |-> "deep nets"], store.HAS_TOPIC)
    /\ BagCardinality(store.Topic) = 2
    /\ \E t \in 1..Len(threads) : threads[t].pc = "next" /\ threads[t].i = 2

\* C17: every Paper node add_paper creates has a non-empty embedding, the encoding
\* of the paper's main keyphrase ('No keyphrase' when no topic was extracted), so
\* every ingested paper is a row of the semantic-search query in every state.
C17_EveryPaperEmbedded ==
    [][store' # store =>
       LET rows == query_search_by_semantic(store')
       IN  \A p \in BagToSet(store'.Paper) :
          /\ p.embedding # <<>>
          /\ \E n \in 1..Len(rows) :
                 /\ rows[n].Filename = p.filename
                 /\ rows[n].Embedding = p.embedding
          /\ ~BagIn(p, store.Paper) =>
                 \E t \in 1..Len(threads) :
                     LET paper == threads[t].items[threads[t].i]
                     IN  /\ threads[t].pc = "merge_paper"
                         /\ paper.filename = p.filename
                         /\ p.embedding =
                                Encode(IF paper.topics = <<>> THEN "No keyphrase"
                                       ELSE paper.topics[1])]_vars

\* a paper without topics and a paper with topics are both in the store
C17_Witness ==
    /\ \E p \in BagToSet(store.Paper) :
          p.filename = "d.pdf" /\ p.embedding = Encode("No keyphrase")
    /\ \E p \in BagToSet(store.Paper) :
          p.filename = "k.PDF" /\ p.embedding = Encode("deep nets")
    /\ Len(query_search_by_semantic(store)) = 2

\* C18: only ingestion writes the store: list, search and vsearch by title, author
\* or topic, simsearch, vsimsearch, help, exit, an unknown command and an empty
\* line leave every node and relationship as they are.
C18_CommandsLeaveStore ==
    [][Accepted /\ ~IsAddLine(input') => store' = store]_vars

\* exit was accepted after an ingestion had written a paper and its author
C18_Witness ==
    /\ handled = 2
    /\ input \in {"exit", "e"}
    /\ ~running
    /\ store.Paper # EmptyBag
    /\ store.WROTE # EmptyBag

\* C19: with add commands running concurrently each ingestion thread uploads
\* exactly the papers it loaded from its own directory: it uploads no paper that
\* another thread loaded, and it ends with every paper it loaded uploaded.
C19_ThreadsUploadOwnPapers ==
    \A t \in 1..Len(threads) :
        LET stages == threads[t].stages
        IN  /\ \A k \in 1..Len(stages) :
                   stages[k][1] \in {"embedding", "write"} =>
                       Recorded(stages, "load", stages[k][2])
            /\ threads[t].pc = "done" =>
                   \A k \in 1..Len(stages) :
                       stages[k][1] = "load" => Recorded(stages, "write", stages[k][2])

\* the paper is in the store with its node and all of its relationships
FullyWritten(s, paper) ==
    /\ PapersNamed(s, paper.filename) # {}
    /\ paper.author # "" => BagIn([author |-> paper.author, paper |-> paper.filename],
                                  s.WROTE)
    /\ \A k \in 1..Len(paper.topics) :
          BagIn([paper |-> paper.filename, topic |-> paper.topics[k]], s.HAS_TOPIC)

\* the thread's chunk is the last one written in the step
Says(t, text) ==
    /\ threads'[t] # threads[t]
    /\ Len(output') = Len(output) + 1
    /\ output'[Len(output')] = Text(text \o "\n")

\* C20: an ingestion thread prints 'Paper loading complete' only after every paper
\* it loaded is fully written to the store (Paper node, WROTE and HAS_TOPIC
\* relationships); it prints 'No valid PDF file was found.' only when it loaded no
\* paper, and then it has written nothing to the store.
C20_CompletionMessages ==
    [][\A t \in 1..Len(threads) :
          LET loaded == papers_load(threads[t].path).items
          IN  /\ Says(t, "Paper loading complete") =>
                     \A n \in 1..Len(loaded) : FullyWritten(store', loaded[n])
              /\ Says(t, "No valid PDF file was found.") =>
                     /\ loaded = <<>>
                     /\ \A k \in 1..Len(threads[t].stages) :
                            threads[t].stages[k][1] # "write"]_vars

\* the thread has returned, or an exception has ended it
Ended(t) == threads[t].pc \in {"done", "raised"}

\* C21: every started ingestion thread terminates having printed exactly one final
\* message: the step that ends a thread prints 'No valid PDF file was found.' or
\* 'Paper loading complete', and no other step of the thread prints either.
C21_ThreadEndsWithFinalMessage ==
    [][\A t \in 1..Len(threads) :
          (~Ended(t) /\ Ended(t)') <=>
              \/ Says(t, "No valid PDF file was found.")
              \/ Says(t, "Paper loading complete")]_vars

\* C22: add_paper is idempotent: a second call with the same dictionary leaves
\* the store (nodes, their fields and the relationships) as the first call left it.
C22_AddPaperIdempotent ==
    call.pc = "twice" => store = call.first

\* add_paper was called twice with two authors and a topic on a store that the
\* first call changed
C22_Witness ==
    /\ call.pc = "twice"
    /\ Len(Authors(call.paper)) = 2 /\ Topics(call.paper) # <<>>
    /\ BagCardinality(call.first.WROTE) >= 2
    /\ BagCardinality(call.first.HAS_TOPIC) >= 1
    /\ call.first \notin AddStores

\* the rows find_papers_by_similarity returns for the Paper nodes named filename
SimilarTo(s, filename, query_text) ==
    find_papers_by_similarity(SelectSeq(query_search_by_semantic(s),
                                        LAMBDA row : row.Filename = filename),
                              query_text, DefaultTopN, DefaultThreshold)

\* C23: whatever was added, 'list papers' shows each Paper node in exactly one table
\* row, so the N of its header '=== N papers in the database ===' is the number of
\* Paper nodes in the store; and no paper appears twice in the results of simsearch.
C23_OneRowPerPaper ==
    LET nodes == BagCardinality(store.Paper)
        listed == command_handler("list papers", commands, store).out
    IN  /\ nodes > 0 =>
              /\ Len(listed) = 2
              /\ listed[1] = Text("=== " \o ToString(nodes)
                                     \o " papers in the database ===\n")
              /\ Len(listed[2].rows) = nodes
        /\ \A p \in BagToSet(store.Paper) : \A query_text \in {"deep nets", "zzz"} :
              Len(SimilarTo(store, p.filename, query_text)) <= CopiesIn(p, store.Paper)

\* pairs of lines that differ only in the letter case of their first token
CasePairs ==
    {<<"LP", "lp">>, <<"List papers", "list papers">>, <<"HELP", "help">>,
     <<"H", "h">>, <<"Exit", "exit">>, <<"BOGUS", "bogus">>,
     <<"ST deep", "st deep">>, <<"Search title deep", "search title deep">>,
     <<"VSEARCH title deep", "vsearch title deep">>,
     <<"VSH author ann", "vsh author ann">>,
     <<"SS deep", "ss deep">>, <<"VSS deep", "vss deep">>,
     <<"ADD dA", "add dA">>, <<"A nope", "a nope">>}

\* C24: command words are matched case-insensitively: two lines that differ only in
\* the letter case of their first token write the same output and have the same
\* effects on the same store ('LP' as 'lp', 'VSEARCH title x' as 'vsearch title x').
C24_CommandWordCaseInsensitive ==
    \A pair \in CasePairs :
        command_handler(pair[1], commands, store)
            = command_handler(pair[2], commands, store)

\* C25: command_handler clears the output area before it runs a non-empty line,
\* whether the first token is a known command or not, so the output after the line
\* is only what that command wrote; a line that is empty or only whitespace leaves
\* the output area, the store and the running flag as they were.
C25_OutputClearedPerLine ==
    [][Accepted =>
          IF Tokens(input') = <<>>
          THEN output' = output /\ store' = store /\ running' = running
          ELSE output' = command_handler(input', commands, store).out]_vars

\* an unknown word was accepted after an ingestion thread had finished printing,
\* and the output area holds the message of the unknown word alone
C25_Witness ==
    /\ handled = 2 /\ input = "bogus"
    /\ Len(threads) = 1 /\ threads[1].pc = "done"
    /\ output = Written("Unknown command 'bogus'", "\n")

\* C26: the graph visualise_output builds for n papers has n + 1 distinct nodes, one
\* central node labelled central_label and one node per paper, and n edges, each
\* joining the central node to a different paper node, for every central_label,
\* 'paper_<k>' included; with use_similarity the edge of a paper has the length
\* base_length + (1 - similarity) * scale, so a more similar paper never has a
\* longer edge, and without use_similarity no edge has a length.
C26_StarGraph ==
    call.pc = "return" =>
        LET net == html[call.output_file]
            n == Len(call.papers)
            central == {i \in 1..Len(net.nodes) :
                            net.nodes[i].label = call.central_label
                                /\ net.nodes[i].title = "Search root"}
            similarity(i) == Get(call.papers[i], "Similarity", PyFloat(500)).v
        IN  /\ Len(net.nodes) = n + 1
            /\ Cardinality(NodeIds(net)) = n + 1
            /\ Cardinality(central) = 1
            /\ Len(net.edges) = n
            /\ \A c \in central : \A e \in 1..n :
                  /\ net.edges[e].from = net.nodes[c].id
                  /\ net.edges[e].to \in NodeIds(net) \ {net.nodes[c].id}
                  /\ \A f \in 1..n : net.edges[f].to = net.edges[e].to => f = e
                  /\ net.edges[e].length =
                        IF call.use_similarity
                        THEN PyFloat(DefaultBaseLength * 1000
                                        + (1000 - similarity(e)) * DefaultScale)
                        ELSE PyNone
                  /\ \A f \in 1..n :
                        call.use_similarity /\ similarity(e) >= similarity(f)
                            => net.edges[e].length.v <= net.edges[f].length.v

\* C10: papers_load sets doi to 'https://doi.org/' followed by the bare DOI of the
\* first match in the text or, only if the text has none, in the title: it starts
\* with '10.', has no 'doi:' prefix in any letter case and no trailing punctuation;
\* if neither has a DOI, doi is 'NO PROVIDED DOI'.
C10_DoiLink ==
    call.pc = "return" =>
        IF ~DoiSearch(call.text).found /\ ~DoiSearch(call.title).found
        THEN call.doi = "NO PROVIDED DOI"
        ELSE LET bare == RStripChars(DoiSearch(DoiSource(call)).group1, DoiStripChars)
             IN  /\ call.doi = "https://doi.org/" \o bare
                 /\ StartsWith(bare, "10.")
                 /\ ~Contains(Lower(call.doi), "doi:")
                 /\ CharAt(call.doi, Len(call.doi)) \notin CharsOf(DoiStripChars)

====
